---- MODULE Spec2Model ----
(***************************************************************************)
(* A model of flopy's MODFLOW discretization package (ModflowDis,          *)
(* src/flopy/modflow/mfdis.py) and well package (ModflowWel,               *)
(* src/flopy/modflow/mfwel.py).                                            *)
(*                                                                         *)
(* Conventions.  Arrays of the source (numpy / Util2d / Util3d) are        *)
(* functions over 0-based index ranges, as in the source.  Text is a       *)
(* sequence of lines.  Real numbers are integers (every value used is      *)
(* exactly representable in float32).  An operation that raises leaves     *)
(* the name of the exception in err.                                       *)
(***************************************************************************)
EXTENDS Integers, Sequences, FiniteSets, TLC

VARIABLES
    pc,       \* the operation that ran last ("init" after construction)
    dis,      \* the ModflowDis object: its attributes, by their source names
    ibound,   \* model.bas6.ibound.array, the active-cell mask of the container
    ret,      \* what the last operation returned (or the locals it ended with)
    err,      \* "" or the exception the last operation raised
    handles,  \* for each file handle the last operation opened: is it still open
    fs,       \* the text files on disk, by role
    wel       \* the local variables of ModflowWel.load

vars == <<pc, dis, ibound, ret, err, handles, fs, wel>>

----------------------------------------------------------------------------
(* Bounds of the model *)

MaxLay == 2
MaxRow == 3
MaxCol == 3
\* SpecGeo: the most cells of a layer-row-column grid, the highest elevation,
\* the highest fill value of an uninitialised buffer
MaxCells == 4
MaxElev == 2
MaxFill == 2
\* SpecIO: the most stress periods
MaxPer == 2

----------------------------------------------------------------------------
(* Small helpers standing for numpy / python built-ins *)

Range(n) == 0 .. (n - 1)

Size(a) == Cardinality(DOMAIN a)

RECURSIVE SumTo(_, _)
SumTo(a, n) == IF n = 0 THEN 0 ELSE a[n - 1] + SumTo(a, n - 1)

\* python's sum(a) / numpy's a.sum() over a 1-d array
Sum(a) == SumTo(a, Size(a))

Full1(n, v) == [i \in Range(n) |-> v]
Full2(nr, nc, v) == [r \in Range(nr) |-> [c \in Range(nc) |-> v]]
Full3(ns, nr, nc, v) == [s \in Range(ns) |-> Full2(nr, nc, v)]

\* a - b, element by element, on 2-d arrays of one shape
Sub2(a, b) == [r \in DOMAIN a |-> [c \in DOMAIN a[r] |-> a[r][c] - b[r][c]]]

Shape2Ok(a, nr, nc) ==
    /\ DOMAIN a = Range(nr)
    /\ \A r \in Range(nr) : DOMAIN a[r] = Range(nc)

Shape3Ok(a, ns, nr, nc) ==
    /\ DOMAIN a = Range(ns)
    /\ \A s \in Range(ns) : Shape2Ok(a[s], nr, nc)

\* int(a / b) for a >= 0, b > 0: python 2 floors the quotient of two ints,
\* python 3 truncates the float quotient; both give the floor here.
IntDiv(a, b) == a \div b

----------------------------------------------------------------------------
(* ModflowDis: node numbering *)

\* get_lrc's loop body without the round-up of the row index
lrc_of_node_norowfix(node, nrow, ncol) ==
    LET nrc == nrow * ncol
        k0  == IntDiv(node, nrc)
        k   == IF k0 * nrc < node THEN k0 + 1 ELSE k0
        ij  == node - (k - 1) * nrc
        i   == IntDiv(ij, ncol)
        j   == ij - (i - 1) * ncol
    IN  <<k, i, j>>

\* the body of get_lrc's loop, for one node
lrc_of_node(node, nrow, ncol) ==
    LET nrc == nrow * ncol
        k0  == IntDiv(node, nrc)
        k   == IF k0 * nrc < node THEN k0 + 1 ELSE k0
        ij  == node - (k - 1) * nrc
        i0  == IntDiv(ij, ncol)
        i   == IF i0 * ncol < ij THEN i0 + 1 ELSE i0
        j   == ij - (i - 1) * ncol
    IN  <<k, i, j>>

get_lrc(nodes, nrow, ncol) ==
    [x \in 1 .. Len(nodes) |-> lrc_of_node(nodes[x], nrow, ncol)]

\* the body of get_node's loop, for one (k, i, j)
node_of_lrc(kij, nrow, ncol) ==
    LET nrc == nrow * ncol
    IN  ((kij[1] - 1) * nrc) + ((kij[2] - 1) * ncol) + kij[3]

get_node(lrc_list, nrow, ncol) ==
    [x \in 1 .. Len(lrc_list) |-> node_of_lrc(lrc_list[x], nrow, ncol)]

----------------------------------------------------------------------------
(* ModflowDis: construction *)

\* An argument that python accepts as a scalar or as an array.
Scalar(x) == [scalar |-> TRUE, v |-> x, a |-> <<>>]
Array(x) == [scalar |-> FALSE, v |-> 0, a |-> x]

\* Util2d / Util3d of a given shape: a scalar is broadcast, an array is taken
\* as it is and must have the shape.
Util1dOk(n, x) == x.scalar \/ DOMAIN x.a = Range(n)
Util1d(n, x) == IF x.scalar THEN Full1(n, x.v) ELSE x.a
Util2dOk(nr, nc, x) == x.scalar \/ Shape2Ok(x.a, nr, nc)
Util2d(nr, nc, x) == IF x.scalar THEN Full2(nr, nc, x.v) ELSE x.a
Util3dOk(ns, nr, nc, x) == x.scalar \/ Shape3Ok(x.a, ns, nr, nc)
Util3d(ns, nr, nc, x) == IF x.scalar THEN Full3(ns, nr, nc, x.v) ELSE x.a

\* self.laycbd[-1] = 0
ForceLastZero(laycbd, nlay) ==
    [l \in DOMAIN laycbd |-> IF l = nlay - 1 THEN 0 ELSE laycbd[l]]

\* __calculate_thickness: one surface per k in range(nlay + sum(laycbd))
calculate_thickness(top, botm, nlay, laycbd) ==
    [k \in Range(nlay + Sum(laycbd)) |->
        IF k = 0 THEN Sub2(top, botm[0]) ELSE Sub2(botm[k - 1], botm[k])]

\* The default arguments of ModflowDis.__init__
DefaultArgs ==
    [nlay |-> 1, nrow |-> 2, ncol |-> 2, nper |-> 1,
     delr |-> Scalar(1), delc |-> Scalar(1), laycbd |-> Scalar(0),
     top |-> Scalar(1), botm |-> Scalar(0),
     perlen |-> Scalar(1), nstp |-> Scalar(1), tsmult |-> Scalar(1),
     steady |-> Scalar(TRUE), itmuni |-> 4, lenuni |-> 2,
     start_datetime |-> <<"1", "/", "1", "/", "1", "9", "7", "0">>]

\* The shapes __init__ asks of its array arguments
InitShapesOk(a) ==
    /\ Util1dOk(a.nlay, a.laycbd)
    /\ Util1dOk(a.ncol, a.delr)
    /\ Util1dOk(a.nrow, a.delc)
    /\ Util2dOk(a.nrow, a.ncol, a.top)
    /\ Util3dOk(a.nlay + Sum(ForceLastZero(Util1d(a.nlay, a.laycbd), a.nlay)),
                a.nrow, a.ncol, a.botm)
    /\ Util1dOk(a.nper, a.perlen)
    /\ Util1dOk(a.nper, a.nstp)
    /\ Util1dOk(a.nper, a.tsmult)
    /\ Util1dOk(a.nper, a.steady)

\* ModflowDis.__init__ on arguments of the right shapes: the object built
ModflowDis(a) ==
    LET laycbd == ForceLastZero(Util1d(a.nlay, a.laycbd), a.nlay)
        top    == Util2d(a.nrow, a.ncol, a.top)
        botm   == Util3d(a.nlay + Sum(laycbd), a.nrow, a.ncol, a.botm)
    IN  [nlay |-> a.nlay, nrow |-> a.nrow, ncol |-> a.ncol, nper |-> a.nper,
         laycbd |-> laycbd,
         delr |-> Util1d(a.ncol, a.delr),
         delc |-> Util1d(a.nrow, a.delc),
         top |-> top,
         botm |-> botm,
         perlen |-> Util1d(a.nper, a.perlen),
         nstp |-> Util1d(a.nper, a.nstp),
         tsmult |-> Util1d(a.nper, a.tsmult),
         steady |-> Util1d(a.nper, a.steady),
         itmuni |-> a.itmuni, lenuni |-> a.lenuni,
         start_datetime |-> a.start_datetime,
         thickness |-> calculate_thickness(top, botm, a.nlay, laycbd)]

\* The object before any construction (load has not returned one)
NoDis == [nlay |-> 0]

----------------------------------------------------------------------------
(* State that an operation does not use *)

NoIbound == <<>>
NoRet == [op |-> "none"]
NoHandles == <<>>
NoFs == [dis |-> <<>>, cnf |-> <<>>, cnf_per_line |-> 0, wel |-> <<>>]
NoWel == [iper |-> 0]

----------------------------------------------------------------------------
(* Specification SpecNode: node numbering on a grid of any size *)

InitNode ==
    /\ \E nl \in 1 .. MaxLay, nr \in 1 .. MaxRow, nc \in 1 .. MaxCol :
           dis = ModflowDis([DefaultArgs EXCEPT !.nlay = nl, !.nrow = nr, !.ncol = nc])
    /\ pc = "init"
    /\ ibound = NoIbound
    /\ ret = NoRet
    /\ err = ""
    /\ handles = NoHandles
    /\ fs = NoFs
    /\ wel = NoWel

\* dis.get_lrc(n) for a node id n; 0 and N + 1 are the out-of-range neighbours
GetLrc ==
    /\ pc \in {"init", "get_lrc", "get_node"}
    /\ \E n \in 0 .. (dis.nlay * dis.nrow * dis.ncol + 1) :
           ret' = [op |-> "get_lrc", arg |-> n, v |-> get_lrc(<<n>>, dis.nrow, dis.ncol)]
    /\ pc' = "get_lrc"
    /\ UNCHANGED <<dis, ibound, err, handles, fs, wel>>

\* dis.get_node(v) for the list v that get_lrc returned
GetNode ==
    /\ pc = "get_lrc"
    /\ ret' = [op |-> "get_node", arg |-> ret.arg, v |-> get_node(ret.v, dis.nrow, dis.ncol)]
    /\ pc' = "get_node"
    /\ UNCHANGED <<dis, ibound, err, handles, fs, wel>>

NextNode == GetLrc \/ GetNode

SpecNode == InitNode /\ [][NextNode]_vars

InRange(n) == 1 <= n /\ n <= dis.nlay * dis.nrow * dis.ncol

\* C1: for every in-range node id n, get_lrc(n) is one triple (k, i, j) within
\* the grid with n = (k-1)*nrow*ncol + (i-1)*ncol + j, and get_node of it is [n].
C1_NodeRoundTrip ==
    /\ (pc = "get_lrc" /\ InRange(ret.arg)) =>
           /\ Len(ret.v) = 1
           /\ LET k == ret.v[1][1]
                  i == ret.v[1][2]
                  j == ret.v[1][3]
              IN  /\ 1 <= k /\ k <= dis.nlay
                  /\ 1 <= i /\ i <= dis.nrow
                  /\ 1 <= j /\ j <= dis.ncol
                  /\ ret.arg = (k - 1) * dis.nrow * dis.ncol + (i - 1) * dis.ncol + j
    /\ (pc = "get_node" /\ InRange(ret.arg)) => ret.v = <<ret.arg>>

\* C1 witness: the last node of a grid with several layers, rows and columns
\* has been converted and converted back.
C1_Witness ==
    /\ pc = "get_node"
    /\ dis.nlay > 1 /\ dis.nrow > 1 /\ dis.ncol > 1
    /\ ret.arg = dis.nlay * dis.nrow * dis.ncol
    /\ ret.v = <<ret.arg>>

----------------------------------------------------------------------------
(* ModflowDis: cell volumes and the thickness check *)

\* np.empty(shape): the buffer holds whatever the allocator hands out; the
\* model draws it from the uniform fills 0 .. MaxFill.
np_empty3(nl, nr, nc) == {Full3(nl, nr, nc, g) : g \in 0 .. MaxFill}

\* for l in range(nlay): vol[l, :, :] *= self.thickness.array[l]
MulThickness(vol, thickness) ==
    [l \in DOMAIN vol |-> [r \in DOMAIN vol[l] |-> [c \in DOMAIN vol[l][r] |->
        vol[l][r][c] * thickness[l][r][c]]]]

\* for r in range(nrow): vol[:, r, :] *= self.delc[r]
MulDelc(vol, delc) ==
    [l \in DOMAIN vol |-> [r \in DOMAIN vol[l] |-> [c \in DOMAIN vol[l][r] |->
        vol[l][r][c] * delc[r]]]]

\* for c in range(ncol): vol[:, :, c] *= self.delr[c]
MulDelr(vol, delr) ==
    [l \in DOMAIN vol |-> [r \in DOMAIN vol[l] |-> [c \in DOMAIN vol[l][r] |->
        vol[l][r][c] * delr[c]]]]

\* get_cell_volumes, on the buffer np.empty returned
get_cell_volumes(buf, d) ==
    MulDelr(MulDelc(MulThickness(buf, d.thickness), d.delc), d.delr)

\* checklayerthickness: (self.thickness > 0).all()
checklayerthickness(d) ==
    \A k \in DOMAIN d.thickness : \A r \in Range(d.nrow) : \A c \in Range(d.ncol) :
        d.thickness[k][r][c] > 0

\* get_node_coordinates, one axis: c[0] = w[0] / 2.,
\* c[i] = c[i - 1] + (w[i] + w[i - 1]) / 2.  Coordinates are held in halves
\* of the length unit, so that the halved widths stay whole.
RECURSIVE node_centre(_, _)
node_centre(w, i) ==
    IF i = 0 THEN w[0] ELSE node_centre(w, i - 1) + w[i] + w[i - 1]

\* get_node_coordinates: y (inverted with y[::-1]), x and z, in halves
get_node_coordinates(d) ==
    [y |-> [r \in Range(d.nrow) |-> node_centre(d.delc, d.nrow - 1 - r)],
     x |-> [c \in Range(d.ncol) |-> node_centre(d.delr, c)],
     z |-> [l \in Range(d.nlay) |->
               IF l = 0 THEN [r \in Range(d.nrow) |-> [c \in Range(d.ncol) |->
                                 d.top[r][c] + d.botm[0][r][c]]]
               ELSE [r \in Range(d.nrow) |-> [c \in Range(d.ncol) |->
                        d.botm[l - 1][r][c] + d.botm[l][r][c]]]]]

\* the array thickness.array hands out, sharing the stored values
thickness_array_view(d) == [a |-> d.thickness, view |-> TRUE]

\* self.thickness.array: Util3d.array builds a new array of the object's shape
\* and fills it layer by layer from the stored values (thickness is derived on
\* construction and load only); view says whether the array handed out is the
\* stored one.
thickness_array(d) == [a |-> d.thickness, view |-> FALSE]

\* check: d = self.thickness.array; d[inactive] = 1.  The mask has the shape
\* (nlay, nrow, ncol); where d has more surfaces (confining beds) an older
\* numpy sets the cells the mask names and leaves the further surfaces alone.
MaskInactive(thickness, ib, nlay) ==
    [k \in DOMAIN thickness |-> [r \in DOMAIN thickness[k] |->
        [c \in DOMAIN thickness[k][r] |->
            IF k < nlay /\ ib[k][r][c] = 0 THEN 1 ELSE thickness[k][r][c]]]]

\* check: d.min() <= 0
MinNotPositive(d) ==
    \E k \in DOMAIN d : \E r \in DOMAIN d[k] : \E c \in DOMAIN d[k][r] : d[k][r][c] <= 0

\* check: the value of errors after the thickness test
check_errors(d, ib) == MinNotPositive(MaskInactive(thickness_array(d).a, ib, d.nlay))

\* check: the object after d[inactive] = 1.  The assignment writes into d; it
\* reaches the stored thickness only where d is the stored array.
check_masked(d, ib) ==
    IF thickness_array(d).view
    THEN [d EXCEPT !.thickness = MaskInactive(thickness_array(d).a, ib, d.nlay)]
    ELSE d

----------------------------------------------------------------------------
(* Specification SpecGeo: volumes and the check of a constructed geometry *)

Grids ==
    {g \in (1 .. MaxLay) \X (1 .. MaxRow) \X (1 .. MaxCol) :
        g[1] * g[2] * g[3] <= MaxCells}

\* bottoms that step down by one per surface from the top
StepBotm(ns, nr, nc, top) ==
    [k \in Range(ns) |-> Full2(nr, nc, top - (k + 1))]

\* the botm arguments tried: a scalar, the stepped surfaces, and the stepped
\* surfaces with one cell moved
BotmArgs(ns, nr, nc, top) ==
    {Scalar(b) : b \in 0 .. MaxElev}
    \cup {Array(StepBotm(ns, nr, nc, top))}
    \cup {Array([StepBotm(ns, nr, nc, top) EXCEPT ![k][r][c] = v]) :
            k \in Range(ns), r \in Range(nr), c \in Range(nc), v \in 0 .. MaxElev}

\* the width arguments tried: uniform, and growing by one per cell
WidthArgs(n) == {Scalar(1), Array([i \in Range(n) |-> i + 1])}

InitGeo ==
    /\ \E g \in Grids : \E cbd \in [Range(g[1]) -> 0 .. 1] : \E t \in 1 .. MaxElev :
         LET ns == g[1] + Sum(ForceLastZero(cbd, g[1]))
         IN  \E b \in BotmArgs(ns, g[2], g[3], t) :
             \E wr \in WidthArgs(g[3]), wc \in WidthArgs(g[2]) :
                dis = ModflowDis([DefaultArgs EXCEPT
                          !.nlay = g[1], !.nrow = g[2], !.ncol = g[3],
                          !.laycbd = Array(cbd), !.top = Scalar(t), !.botm = b,
                          !.delr = wr, !.delc = wc])
    /\ pc = "init"
    /\ ibound = NoIbound
    /\ ret = NoRet
    /\ err = ""
    /\ handles = NoHandles
    /\ fs = NoFs
    /\ wel = NoWel

\* dis.get_cell_volumes()
GetCellVolumes ==
    /\ \E buf \in np_empty3(dis.nlay, dis.nrow, dis.ncol) :
           ret' = [op |-> "get_cell_volumes", v |-> get_cell_volumes(buf, dis)]
    /\ pc' = "get_cell_volumes"
    /\ err' = ""
    /\ UNCHANGED <<dis, ibound, handles, fs, wel>>

\* dis.checklayerthickness()
CheckLayerThickness ==
    /\ ret' = [op |-> "checklayerthickness", v |-> checklayerthickness(dis)]
    /\ pc' = "checklayerthickness"
    /\ err' = ""
    /\ UNCHANGED <<dis, ibound, handles, fs, wel>>

\* dis.get_node_coordinates()
GetNodeCoordinates ==
    /\ ret' = [op |-> "get_node_coordinates", v |-> get_node_coordinates(dis)]
    /\ pc' = "get_node_coordinates"
    /\ err' = ""
    /\ UNCHANGED <<dis, ibound, handles, fs, wel>>

\* the active-cell masks tried: every cell active, or one cell inactive
Masks(nl, nr, nc) ==
    {Full3(nl, nr, nc, 1)}
    \cup {[Full3(nl, nr, nc, 1) EXCEPT ![l][r][c] = 0] :
            l \in Range(nl), r \in Range(nr), c \in Range(nc)}

\* dis.check(f) with the container's mask m.  f is None or a file name; a file
\* name needs os.path, and mfdis.py does not import os.  With confining beds
\* the mask is smaller than d: numpy >= 1.13 raises IndexError (strict), an
\* older numpy masks the cells the mask names.
Check ==
    \E m \in Masks(dis.nlay, dis.nrow, dis.ncol) :
    \E f \in {"None", "name"} :
    \E numpy \in {"legacy", "strict"} :
        /\ ibound' = m
        /\ pc' = "check"
        /\ IF f = "name"
           THEN /\ err' = "NameError"
                /\ ret' = [op |-> "check", f |-> f, reported |-> FALSE, errors |-> FALSE]
           ELSE IF numpy = "strict" /\ Size(dis.thickness) # dis.nlay
           THEN /\ err' = "IndexError"
                /\ ret' = [op |-> "check", f |-> f, reported |-> FALSE, errors |-> FALSE]
           ELSE /\ err' = ""
                /\ ret' = [op |-> "check", f |-> f, reported |-> TRUE,
                           errors |-> check_errors(dis, m)]
        /\ dis' = IF f = "None" /\ ~(numpy = "strict" /\ Size(dis.thickness) # dis.nlay)
                  THEN check_masked(dis, m)
                  ELSE dis
        /\ UNCHANGED <<handles, fs, wel>>

NextGeo == GetCellVolumes \/ CheckLayerThickness \/ GetNodeCoordinates \/ Check

SpecGeo == InitGeo /\ [][NextGeo]_vars

\* C2: every cell of the array get_cell_volumes returns is
\* thickness * delc[r] * delr[c], whatever the result buffer held at first.
C2_Volumes ==
    pc = "get_cell_volumes" =>
        \A l \in Range(dis.nlay) : \A r \in Range(dis.nrow) : \A c \in Range(dis.ncol) :
            ret.v[l][r][c] = dis.thickness[l][r][c] * dis.delc[r] * dis.delr[c]

\* every active cell (ibound # 0) has thickness > 0
ActiveCellsPositive ==
    \A l \in Range(dis.nlay) : \A r \in Range(dis.nrow) : \A c \in Range(dis.ncol) :
        ibound[l][r][c] # 0 => dis.thickness[l][r][c] > 0

\* C8: check (writing no summary file) reports the thickness as OK if and only
\* if every active cell has thickness > 0.
C8_CheckIffActivePositive ==
    (pc = "check" /\ ret.f = "None") =>
        ((ret.reported /\ ~ret.errors) <=> ActiveCellsPositive)

C17_NodeCoordinates ==
    pc = "get_node_coordinates" =>
        /\ \A r \in Range(dis.nrow) :
               ret.v.y[r] = 2 * (Sum(dis.delc) - SumTo(dis.delc, r + 1)) + dis.delc[r]
        /\ \A c \in Range(dis.ncol) :
               ret.v.x[c] = 2 * SumTo(dis.delr, c) + dis.delr[c]

----------------------------------------------------------------------------
(* Text files: a file is a sequence of lines, a line a sequence of           *)
(* whitespace-separated tokens.  A token is a numeric literal or a malformed *)
(* one (bad), on which int() and float() raise ValueError.                   *)

Num(x) == [bad |-> FALSE, v |-> x]
Bad == [bad |-> TRUE, v |-> 0]

\* f.readline() at line number pos: the tokens of the line, none at end of file
ReadLine(file, pos) == IF pos <= Len(file) THEN file[pos] ELSE <<>>

\* line = ''; for dummy in range(n): line = line + f.readline(); line.split()
RECURSIVE ReadLines(_, _, _)
ReadLines(file, pos, n) ==
    IF n <= 0 THEN <<>> ELSE ReadLine(file, pos) \o ReadLines(file, pos + 1, n - 1)

AnyBad(toks) == \E x \in 1 .. Len(toks) : toks[x].bad

\* the values of a sequence of tokens, 0-based as a python list
Values(toks) == [x \in Range(Len(toks)) |-> toks[x + 1].v]

----------------------------------------------------------------------------
(* ModflowDis.read_from_cnf *)

\* the nested function getn(ii, jj)
getn(ii, jj) ==
    IF jj = 0 THEN 1
    ELSE IF ii % jj # 0 THEN IntDiv(ii, jj) + 1 ELSE IntDiv(ii, jj)

\* The try block: the locals it binds (cnf_nlay, cnf_nrow, cnf_ncol: bound
\* counts how many of them), the exception that ends it ("" if none) and
\* whether it reached f_cnf.close().
cnf_try(file, n_per_line) ==
    LET s     == ReadLine(file, 1)
        bound == IF Len(s) >= 1 /\ ~s[1].bad
                 THEN IF Len(s) >= 2 /\ ~s[2].bad
                      THEN IF Len(s) >= 3 /\ ~s[3].bad THEN 3 ELSE 2
                      ELSE 1
                 ELSE 0
        exc1  == IF bound = 3 THEN ""
                 ELSE IF Len(s) <= bound THEN "IndexError" ELSE "ValueError"
        nlay  == IF bound >= 1 THEN s[1].v ELSE 0
        nrow  == IF bound >= 2 THEN s[2].v ELSE 0
        ncol  == IF bound >= 3 THEN s[3].v ELSE 0
        n1    == getn(ncol, n_per_line)
        n2    == getn(nrow, n_per_line)
        n3    == getn(nrow * ncol, n_per_line)
        n4    == getn(nlay * nrow * ncol, n_per_line)
        p1    == 2
        p2    == p1 + (IF n1 > 0 THEN n1 ELSE 0)
        p3    == p2 + (IF n2 > 0 THEN n2 ELSE 0)
        p4    == p3 + (IF n3 > 0 THEN n3 ELSE 0)
        delr  == ReadLines(file, p1, n1)
        delc  == ReadLines(file, p2, n2)
        top   == ReadLines(file, p3, n3)
        dz    == ReadLines(file, p4, n4)
        exc   == IF exc1 # "" THEN exc1
                 ELSE IF AnyBad(delr) \/ AnyBad(delc) \/ AnyBad(top) THEN "ValueError"
                 ELSE IF Len(top) # nrow * ncol THEN "ValueError"
                 ELSE IF AnyBad(dz) THEN "ValueError"
                 ELSE IF Len(dz) # nlay * nrow * ncol THEN "ValueError"
                 ELSE ""
    IN  [bound |-> bound, cnf_nlay |-> nlay, cnf_nrow |-> nrow, cnf_ncol |-> ncol,
         exc |-> exc, closed |-> (exc = ""),
         cnf_top |-> IF exc = "" THEN Values(top) ELSE <<>>,
         cnf_dz |-> IF exc = "" THEN Values(dz) ELSE <<>>]

\* The finally block.  It assigns self.nlay, self.nrow, self.ncol from the
\* locals, in this order, and stops with UnboundLocalError at the first one the
\* try block did not bind.  With all three bound it goes on to
\* Util2d(model, ...), and read_from_cnf has no name model: NameError.  The
\* assignments of delr, delc, top and botm after it are never reached.
cnf_finally(d, t) ==
    [d EXCEPT !.nlay = IF t.bound >= 1 THEN t.cnf_nlay ELSE @,
              !.nrow = IF t.bound >= 2 THEN t.cnf_nrow ELSE @,
              !.ncol = IF t.bound >= 3 THEN t.cnf_ncol ELSE @]

\* the exception the finally block raises
cnf_finally_exc(t) == IF t.bound < 3 THEN "UnboundLocalError" ELSE "NameError"

\* dis.read_from_cnf(cnf_file_name, n_per_line) on the file fs.cnf
ReadFromCnf ==
    /\ pc = "init"
    /\ \E n_per_line \in {0, fs.cnf_per_line} :
         LET t == cnf_try(fs.cnf, n_per_line)
         IN  /\ dis' = cnf_finally(dis, t)
             /\ err' = cnf_finally_exc(t)
             /\ handles' = [h \in {"f_cnf"} |-> IF t.closed THEN "closed" ELSE "open"]
             /\ ret' = [op |-> "read_from_cnf", n_per_line |-> n_per_line, try |-> t]
    /\ pc' = "read_from_cnf"
    /\ UNCHANGED <<ibound, fs, wel>>

----------------------------------------------------------------------------
(* Specification SpecCnf: read_from_cnf on a constructed geometry *)

\* s cut into lines of at most k tokens (one line if k = 0)
RECURSIVE Chunk(_, _)
Chunk(s, k) ==
    IF k = 0 \/ Len(s) <= k THEN <<s>>
    ELSE <<SubSeq(s, 1, k)>> \o Chunk(SubSeq(s, k + 1, Len(s)), k)

NumLine(n, v) == [x \in 1 .. n |-> Num(v)]

\* per-layer thickness written for layer l (0-based): l + 1 everywhere
DzTokens(nl, nr, nc) == [x \in 1 .. nl * nr * nc |-> Num(((x - 1) \div (nr * nc)) + 1)]

\* a well-formed configuration file for a grid, k values per line
CnfText(g, t, k) ==
    <<<<Num(g[1]), Num(g[2]), Num(g[3])>>>>
    \o Chunk(NumLine(g[3], 1), k)
    \o Chunk(NumLine(g[2], 1), k)
    \o Chunk(NumLine(g[2] * g[3], t), k)
    \o Chunk(DzTokens(g[1], g[2], g[3]), k)

\* the file with one token made malformed, one token dropped, or cut short
Damaged(file) ==
    UNION {{[file EXCEPT ![i][j] = Bad] : j \in 1 .. Len(file[i])} : i \in 1 .. Len(file)}
    \cup {[file EXCEPT ![i] = SubSeq(@, 1, Len(@) - 1)] : i \in 1 .. Len(file)}
    \cup {SubSeq(file, 1, n) : n \in 0 .. Len(file)}

InitCnf ==
    /\ \E g \in Grids : \E cbd \in [Range(g[1]) -> 0 .. 1] :
           dis = ModflowDis([DefaultArgs EXCEPT
                     !.nlay = g[1], !.nrow = g[2], !.ncol = g[3], !.laycbd = Array(cbd)])
    /\ \E g \in Grids : \E t \in 1 .. MaxElev : \E k \in {0, 2} :
       \E file \in {CnfText(g, t, k)} \cup Damaged(CnfText(g, t, k)) :
           fs = [NoFs EXCEPT !.cnf = file, !.cnf_per_line = k]
    /\ pc = "init"
    /\ ibound = NoIbound
    /\ ret = NoRet
    /\ err = ""
    /\ handles = NoHandles
    /\ wel = NoWel

NextCnf == ReadFromCnf

SpecCnf == InitCnf /\ [][NextCnf]_vars

\* C6: after construction and after read_from_cnf, thickness has a surface for
\* every k below nlay + sum(laycbd), thickness[0] = top - botm[0] and
\* thickness[k] = botm[k-1] - botm[k] for k >= 1.
C6_ThicknessConsistent ==
    \A k \in Range(dis.nlay + Sum(dis.laycbd)) :
        /\ k \in DOMAIN dis.thickness
        /\ k \in DOMAIN dis.botm
        /\ dis.thickness[k] = IF k = 0 THEN Sub2(dis.top, dis.botm[0])
                              ELSE Sub2(dis.botm[k - 1], dis.botm[k])

\* top[r, c] - (dz[0, r, c] + ... + dz[l, r, c]) of the file read_from_cnf parsed
RECURSIVE CnfBottom(_, _, _, _)
CnfBottom(t, l, r, c) ==
    LET below == IF l = 0 THEN t.cnf_top[r * t.cnf_ncol + c] ELSE CnfBottom(t, l - 1, r, c)
    IN  below - t.cnf_dz[(l * t.cnf_nrow + r) * t.cnf_ncol + c]

\* C10: read_from_cnf on a file it parses to the end succeeds and leaves
\* botm[l, r, c] = top[r, c] - (dz[0, r, c] + ... + dz[l, r, c]) for every layer l.
C10_BotmFromFile ==
    (pc = "read_from_cnf" /\ ret.try.exc = "") =>
        /\ err = ""
        /\ \A l \in Range(dis.nlay) : \A r \in Range(dis.nrow) : \A c \in Range(dis.ncol) :
               dis.botm[l][r][c] = CnfBottom(ret.try, l, r, c)

\* the try block stops at int() or float() of a malformed token: one of the
\* three dimensions, or a value of delr, delc, top or (top reshaped) dz
cnf_met_malformed(file, n_per_line) ==
    LET t    == cnf_try(file, n_per_line)
        s    == ReadLine(file, 1)
        n1   == getn(t.cnf_ncol, n_per_line)
        n2   == getn(t.cnf_nrow, n_per_line)
        n3   == getn(t.cnf_nrow * t.cnf_ncol, n_per_line)
        n4   == getn(t.cnf_nlay * t.cnf_nrow * t.cnf_ncol, n_per_line)
        top  == ReadLines(file, 2 + n1 + n2, n3)
    IN  IF t.bound < 3 THEN Len(s) > t.bound
        ELSE \/ AnyBad(ReadLines(file, 2, n1))
             \/ AnyBad(ReadLines(file, 2 + n1, n2))
             \/ AnyBad(top)
             \/ /\ Len(top) = t.cnf_nrow * t.cnf_ncol
                /\ AnyBad(ReadLines(file, 2 + n1 + n2 + n3, n4))

\* C11: when read_from_cnf meets a malformed numeric token, the call ends with
\* the ValueError of that token, and the dimensions read before it are assigned.
C11_ParseErrorPropagates ==
    (pc = "read_from_cnf" /\ cnf_met_malformed(fs.cnf, ret.n_per_line)) =>
        /\ err = "ValueError"
        /\ ret.try.bound >= 1 => dis.nlay = ret.try.cnf_nlay
        /\ ret.try.bound >= 2 => dis.nrow = ret.try.cnf_nrow
        /\ ret.try.bound >= 3 => dis.ncol = ret.try.cnf_ncol

----------------------------------------------------------------------------
(* Formatted text: the discretization file is written with python's format  *)
(* fields and read back with split(), int() and float().  Here a line is a   *)
(* sequence of characters.                                                   *)

DigitChars == <<"0", "1", "2", "3", "4", "5", "6", "7", "8", "9">>

IsDigit(ch) == \E d \in 1 .. 10 : DigitChars[d] = ch

DigitVal(ch) == (CHOOSE d \in 1 .. 10 : DigitChars[d] = ch) - 1

RECURSIVE Digits(_)
Digits(n) ==
    IF n < 10 THEN <<DigitChars[n + 1]>>
    ELSE Digits(n \div 10) \o <<DigitChars[(n % 10) + 1]>>

\* str(n) for an int
IntText(n) == IF n < 0 THEN <<"-">> \o Digits(-n) ELSE Digits(n)

Spaces(n) == [x \in 1 .. n |-> " "]

\* right-justify in a field of width w; a longer text is not cut
PadLeft(t, w) == IF Len(t) >= w THEN t ELSE Spaces(w - Len(t)) \o t

\* left-justify in a field of width w
PadRight(t, w) == IF Len(t) >= w THEN t ELSE t \o Spaces(w - Len(t))

\* '{0:<w>d}'.format(n)
FmtD(n, w) == PadLeft(IntText(n), w)

\* '{0:<w>f}'.format(x) for a whole x: six decimals
FmtF(x, w) == PadLeft(IntText(x) \o <<".", "0", "0", "0", "0", "0", "0">>, w)

\* '{0:<w>s}'.format(t)
FmtS(t, w) == PadRight(t, w)

\* line.strip().split(): the maximal runs of non-blank characters
RECURSIVE SplitFrom(_, _, _, _)
SplitFrom(line, x, cur, acc) ==
    IF x > Len(line) THEN (IF cur = <<>> THEN acc ELSE Append(acc, cur))
    ELSE IF line[x] = " "
         THEN SplitFrom(line, x + 1, <<>>, IF cur = <<>> THEN acc ELSE Append(acc, cur))
         ELSE SplitFrom(line, x + 1, Append(cur, line[x]), acc)

Split(line) == SplitFrom(line, 1, <<>>, <<>>)

RECURSIVE DigitsValue(_)
DigitsValue(t) ==
    IF t = <<>> THEN 0
    ELSE 10 * DigitsValue(SubSeq(t, 1, Len(t) - 1)) + DigitVal(t[Len(t)])

AllDigits(t) == t # <<>> /\ \A x \in 1 .. Len(t) : IsDigit(t[x])

Unsigned(t) == IF t # <<>> /\ t[1] \in {"-", "+"} THEN SubSeq(t, 2, Len(t)) ELSE t

Signed(t, v) == IF t # <<>> /\ t[1] = "-" THEN -v ELSE v

\* int(t): an optional sign and digits; anything else raises ValueError
ParseInt(t) ==
    IF AllDigits(Unsigned(t))
    THEN [ok |-> TRUE, v |-> Signed(t, DigitsValue(Unsigned(t)))]
    ELSE [ok |-> FALSE, v |-> 0]

\* the place of the first "." of t, 0 if there is none
DotAt(t) ==
    IF \E x \in 1 .. Len(t) : t[x] = "."
    THEN CHOOSE x \in 1 .. Len(t) : t[x] = "." /\ \A y \in 1 .. (x - 1) : t[y] # "."
    ELSE 0

\* float(t) for the literals of the file: an optional sign, digits and an
\* optional "." with decimals; the value is whole when the decimals are zeros
\* (whole says so; the writer's six decimals of a whole number are zeros).
ParseFloat(t) ==
    LET u    == Unsigned(t)
        dot  == DotAt(u)
        ip   == IF dot = 0 THEN u ELSE SubSeq(u, 1, dot - 1)
        fp   == IF dot = 0 THEN <<>> ELSE SubSeq(u, dot + 1, Len(u))
        okay == /\ (ip # <<>> \/ fp # <<>>)
                /\ \A x \in 1 .. Len(ip) : IsDigit(ip[x])
                /\ \A x \in 1 .. Len(fp) : IsDigit(fp[x])
    IN  IF okay
        THEN [ok |-> TRUE, v |-> Signed(t, DigitsValue(ip)),
              whole |-> \A x \in 1 .. Len(fp) : fp[x] = "0"]
        ELSE [ok |-> FALSE, v |-> 0, whole |-> FALSE]

\* t.upper() of the flag written for a stress period
Upper(t) ==
    [x \in 1 .. Len(t) |-> CASE t[x] = "s" -> "S" [] t[x] = "t" -> "T"
                             [] t[x] = "r" -> "R" [] OTHER -> t[x]]

\* str.lower() of one character
LowerChar(ch) ==
    LET UpperLetters ==
            <<"A", "B", "C", "D", "E", "F", "G",
              "H", "I", "J", "K", "L", "M", "N",
              "O", "P", "Q", "R", "S", "T", "U",
              "V", "W", "X", "Y", "Z">>
        LowerLetters ==
            <<"a", "b", "c", "d", "e", "f", "g",
              "h", "i", "j", "k", "l", "m", "n",
              "o", "p", "q", "r", "s", "t", "u",
              "v", "w", "x", "y", "z">>
    IN  IF \E x \in 1 .. 26 : UpperLetters[x] = ch
        THEN LowerLetters[CHOOSE x \in 1 .. 26 : UpperLetters[x] = ch]
        ELSE ch

\* str.lower()
LowerText(t) == [x \in 1 .. Len(t) |-> LowerChar(t[x])]

----------------------------------------------------------------------------
(* ModflowDis.write_file *)

\* self.heading
heading ==
    <<"#", " ", "D", "i", "s", "c", "r", "e", "t", "i", "z", "a", "t", "i", "o", "n", " ", "f", "i", "l", "e", " ", "f", "o", "r", " ", "M", "O", "D", "F", "L", "O", "W", ",", " ",
     "g", "e", "n", "e", "r", "a", "t", "e", "d", " ", "b", "y", " ", "F", "l", "o", "p", "y", ".">>

\* str(self.sr): the spatial reference, as the keyed items the header carries
sr_str == <<"x", "u", "l", ":", "0", ",", "y", "u", "l", ":", "0", ",", "r", "o", "t", "a", "t", "i", "o", "n", ":", "0", ",", "p", "r", "o", "j", "4", "_", "s", "t", "r", ":", "E", "P", "S", "G", ":", "4", "3", "2", "6">>

\* Util2d.get_file_entry of a 1-d array: its first n values on one line
RECURSIVE EntryRow(_, _)
EntryRow(a, n) == IF n = 0 THEN <<>> ELSE EntryRow(a, n - 1) \o FmtF(a[n - 1], 15)

FileEntry1(a) == <<EntryRow(a, Size(a))>>

\* Util2d.get_file_entry of a 2-d array: one line per row
RECURSIVE EntryRows(_, _)
EntryRows(a, n) == IF n = 0 THEN <<>> ELSE EntryRows(a, n - 1) \o FileEntry1(a[n - 1])

FileEntry2(a) == EntryRows(a, Size(a))

\* Util3d.get_file_entry: the surfaces one after the other
RECURSIVE EntrySurfaces(_, _)
EntrySurfaces(a, n) ==
    IF n = 0 THEN <<>> ELSE EntrySurfaces(a, n - 1) \o FileEntry2(a[n - 1])

FileEntry3(a) == EntrySurfaces(a, Size(a))

\* Item 1: NLAY, NROW, NCOL, NPER, ITMUNI, LENUNI
Item1(d) ==
    FmtD(d.nlay, 10) \o FmtD(d.nrow, 10) \o FmtD(d.ncol, 10) \o FmtD(d.nper, 10)
    \o FmtD(d.itmuni, 10) \o FmtD(d.lenuni, 10)

\* Item 2: for l in range(0, self.nlay): '{0:3d}'.format(self.laycbd[l])
RECURSIVE Item2(_, _)
Item2(d, n) == IF n = 0 THEN <<>> ELSE Item2(d, n - 1) \o FmtD(d.laycbd[n - 1], 3)

\* Item 6 with the Ss/tr flag written the wrong way round
Item6_flagswapped(d, t) ==
    FmtF(d.perlen[t], 14) \o FmtD(d.nstp[t], 14) \o FmtF(d.tsmult[t], 10) \o <<" ">>
    \o <<" ">> \o (IF d.steady[t] THEN FmtS(<<"T", "R">>, 3) ELSE FmtS(<<"S", "S">>, 3))

\* Item 6, one stress period: PERLEN, NSTP, TSMULT, Ss/tr
Item6(d, t) ==
    FmtF(d.perlen[t], 14) \o FmtD(d.nstp[t], 14) \o FmtF(d.tsmult[t], 10) \o <<" ">>
    \o <<" ">> \o (IF d.steady[t] THEN FmtS(<<"S", "S">>, 3) ELSE FmtS(<<"T", "R">>, 3))

RECURSIVE Items6(_, _)
Items6(d, n) == IF n = 0 THEN <<>> ELSE Append(Items6(d, n - 1), Item6(d, n - 1))

\* the lines write_file writes, in order
write_file(d) ==
    <<heading, <<"#">> \o sr_str \o <<",">> \o d.start_datetime,
      Item1(d), Item2(d, d.nlay)>>
    \o FileEntry1(d.delr) \o FileEntry1(d.delc) \o FileEntry2(d.top) \o FileEntry3(d.botm)
    \o Items6(d, d.nper)

----------------------------------------------------------------------------
(* ModflowDis.load *)

\* a 0-based array with one more value at its end
Push(a, v) == [x \in Range(Size(a) + 1) |-> IF x < Size(a) THEN a[x] ELSE v]

\* dataset 0: while True: line = f.readline(); if line[0] != '#': break.
\* The line number of the first line that is no comment; 0 when the file ends
\* first (line is then '' and line[0] raises IndexError).
RECURSIVE SkipHeader(_, _)
SkipHeader(file, pos) ==
    IF pos > Len(file) THEN 0
    ELSE IF file[pos] # <<>> /\ file[pos][1] = "#" THEN SkipHeader(file, pos + 1)
    ELSE pos

\* dataset 1: line.strip().split()[0:6] unpacked into six names, each int()
load_dataset1(line) ==
    LET t == Split(line)
        n == [x \in 1 .. 6 |-> IF x <= Len(t) THEN ParseInt(t[x]) ELSE [ok |-> FALSE, v |-> 0]]
    IN  IF Len(t) < 6 \/ \E x \in 1 .. 6 : ~n[x].ok
        THEN [err |-> "ValueError", nlay |-> 0, nrow |-> 0, ncol |-> 0, nper |-> 0,
              itmuni |-> 0, lenuni |-> 0]
        ELSE [err |-> "", nlay |-> n[1].v, nrow |-> n[2].v, ncol |-> n[3].v,
              nper |-> n[4].v, itmuni |-> n[5].v, lenuni |-> n[6].v]

\* dataset 2, one line: for val in raw: laycbd[d] = np.int(val); d += 1;
\* if d == nlay: break
RECURSIVE laycbd_line(_, _, _, _)
laycbd_line(raw, x, acc, nlay) ==
    IF x > Len(raw) THEN [err |-> "", laycbd |-> acc]
    ELSE IF ~ParseInt(raw[x]).ok THEN [err |-> "ValueError", laycbd |-> acc]
    ELSE IF Size(acc) + 1 = nlay
         THEN [err |-> "", laycbd |-> Push(acc, ParseInt(raw[x]).v)]
         ELSE laycbd_line(raw, x + 1, Push(acc, ParseInt(raw[x]).v), nlay)

\* dataset 2: while True: read a line, take its values; if d == nlay: break.
\* At the end of the file readline() returns '' again and again, d never
\* reaches nlay and the loop does not end (err "hang").
RECURSIVE load_laycbd(_, _, _, _)
load_laycbd(file, pos, acc, nlay) ==
    IF pos > Len(file) THEN [err |-> "hang", laycbd |-> acc, pos |-> pos]
    ELSE LET r == laycbd_line(Split(file[pos]), 1, acc, nlay)
         IN  IF r.err # "" THEN [err |-> r.err, laycbd |-> r.laycbd, pos |-> pos]
             ELSE IF Size(r.laycbd) = nlay
                  THEN [err |-> "", laycbd |-> r.laycbd, pos |-> pos + 1]
                  ELSE load_laycbd(file, pos + 1, r.laycbd, nlay)

\* Util2d.load of a 1-d array of n values: one line of n numbers
ArrayLoad1(file, pos, n) ==
    LET t == Split(ReadLine(file, pos))
    IN  IF Len(t) # n \/ \E x \in 1 .. Len(t) : ~ParseFloat(t[x]).ok
        THEN [err |-> "ValueError", a |-> <<>>, pos |-> pos]
        ELSE [err |-> "", a |-> [x \in Range(n) |-> ParseFloat(t[x + 1]).v], pos |-> pos + 1]

\* Util2d.load of a 2-d array: nr lines of nc numbers
RECURSIVE ArrayLoad2From(_, _, _, _, _)
ArrayLoad2From(file, pos, nr, nc, acc) ==
    IF Size(acc) = nr THEN [err |-> "", a |-> acc, pos |-> pos]
    ELSE LET r == ArrayLoad1(file, pos, nc)
         IN  IF r.err # "" THEN [err |-> r.err, a |-> <<>>, pos |-> pos]
             ELSE ArrayLoad2From(file, r.pos, nr, nc, Push(acc, r.a))

ArrayLoad2(file, pos, nr, nc) == ArrayLoad2From(file, pos, nr, nc, <<>>)

\* Util3d.load: ns surfaces of nr lines each
RECURSIVE ArrayLoad3From(_, _, _, _, _, _)
ArrayLoad3From(file, pos, ns, nr, nc, acc) ==
    IF Size(acc) = ns THEN [err |-> "", a |-> acc, pos |-> pos]
    ELSE LET r == ArrayLoad2(file, pos, nr, nc)
         IN  IF r.err # "" THEN [err |-> r.err, a |-> <<>>, pos |-> pos]
             ELSE ArrayLoad3From(file, r.pos, ns, nr, nc, Push(acc, r.a))

ArrayLoad3(file, pos, ns, nr, nc) == ArrayLoad3From(file, pos, ns, nr, nc, <<>>)

\* dataset 6: the number of botm surfaces load reads
load_nbotm(nlay, laycbd) == IF nlay > 1 THEN nlay + Sum(laycbd) ELSE nlay

\* dataset 7, one line: a1, a2, a3, a4 = line.strip().split()[0:4]
load_period(line) ==
    LET t == Split(line)
    IN  IF Len(t) < 4 THEN [err |-> "ValueError"]
        ELSE IF ~ParseFloat(t[1]).ok \/ ~ParseInt(t[2]).ok \/ ~ParseFloat(t[3]).ok
        THEN [err |-> "ValueError"]
        ELSE [err |-> "", perlen |-> ParseFloat(t[1]).v, nstp |-> ParseInt(t[2]).v,
              tsmult |-> ParseFloat(t[3]).v,
              steady |-> IF Upper(t[4]) = <<"T", "R">> THEN FALSE ELSE TRUE]

\* dataset 7: for k in range(nper)
RECURSIVE load_periods(_, _, _, _)
load_periods(file, pos, nper, acc) ==
    IF Size(acc.perlen) >= nper THEN acc
    ELSE LET r == load_period(ReadLine(file, pos))
         IN  IF r.err # "" THEN [acc EXCEPT !.err = r.err]
             ELSE load_periods(file, pos + 1, nper,
                      [err |-> "", perlen |-> Push(acc.perlen, r.perlen),
                       nstp |-> Push(acc.nstp, r.nstp),
                       tsmult |-> Push(acc.tsmult, r.tsmult),
                       steady |-> Push(acc.steady, r.steady)])

\* what load ends with: the exception ("" if none; "hang" if it never ends),
\* the object built, the laycbd it read and the number of botm surfaces it read
LoadEnd(e, d, laycbd, nbotm) == [err |-> e, dis |-> d, laycbd |-> laycbd, nbotm |-> nbotm]

\* t.split(sep): the pieces of t between the separators, empty ones kept
SplitAt(t, sep) ==
    LET seps   == {x \in 1 .. Len(t) : t[x] = sep}
        pos(k) == IF k = 0 THEN 0
                  ELSE IF k > Cardinality(seps) THEN Len(t) + 1
                  ELSE CHOOSE x \in seps : Cardinality({y \in seps : y < x}) = k - 1
    IN  [k \in 1 .. Cardinality(seps) + 1 |-> SubSeq(t, pos(k - 1) + 1, pos(k) - 1)]

\* header: header += line.strip() over the comment lines before line p1
RECURSIVE HeaderText(_, _)
HeaderText(file, n) ==
    IF n = 0 THEN <<>>
    ELSE LET line    == file[n]
             inked   == {x \in 1 .. Len(line) : line[x] # " "}
             first   == CHOOSE x \in inked : \A y \in inked : x <= y
             last    == CHOOSE x \in inked : \A y \in inked : y <= x
         IN  HeaderText(file, n - 1)
             \o (IF inked = {} THEN <<>> ELSE SubSeq(line, first, last))

\* start_datetime = "1/1/1970"; for item in header.replace('#','').split(','):
\* item = item.lower(); ... elif "start" in item: try: start_datetime =
\* item.split(':')[1] except: pass
header_start_datetime(file, p1) ==
    LET In(sub, t) == \E k \in 0 .. Len(t) - Len(sub) : SubSeq(t, k + 1, k + Len(sub)) = sub
        items == SplitAt(SelectSeq(HeaderText(file, p1 - 1), LAMBDA ch : ch # "#"), ",")
        item(x) == LowerText(items[x])
        taken == {x \in 1 .. Len(items) :
                     /\ ~In(<<"x", "u", "l">>, item(x))
                     /\ ~In(<<"y", "u", "l">>, item(x))
                     /\ ~In(<<"r", "o", "t", "a", "t", "i", "o", "n">>, item(x))
                     /\ ~In(<<"p", "r", "o", "j", "4", "_", "s", "t", "r">>, item(x))
                     /\ In(<<"s", "t", "a", "r", "t">>, item(x))
                     /\ Len(SplitAt(item(x), ":")) >= 2}
    IN  IF taken = {} THEN <<"1", "/", "1", "/", "1", "9", "7", "0">>
        ELSE SplitAt(item(CHOOSE x \in taken : \A y \in taken : y <= x), ":")[2]

\* the arguments load hands to ModflowDis(...)
load_args(d1, laycbd, delr, delc, top, botm, per) ==
    [DefaultArgs EXCEPT
        !.nlay = d1.nlay, !.nrow = d1.nrow, !.ncol = d1.ncol, !.nper = d1.nper,
        !.delr = Array(delr), !.delc = Array(delc), !.laycbd = Array(laycbd),
        !.top = Array(top), !.botm = Array(botm),
        !.perlen = Array(per.perlen), !.nstp = Array(per.nstp),
        !.tsmult = Array(per.tsmult), !.steady = Array(per.steady),
        !.itmuni = d1.itmuni, !.lenuni = d1.lenuni,
        !.start_datetime = d1.start_datetime]

\* load, its end: the ModflowDis(...) call on what was read
load_create(d1, laycbd, nbotm, delr, delc, top, botm, per) ==
    IF per.err # "" THEN LoadEnd(per.err, NoDis, laycbd, nbotm)
    ELSE IF ~InitShapesOk(load_args(d1, laycbd, delr, delc, top, botm, per))
    THEN LoadEnd("ShapeError", NoDis, laycbd, nbotm)
    ELSE LoadEnd("", ModflowDis(load_args(d1, laycbd, delr, delc, top, botm, per)),
                 laycbd, nbotm)

\* load, datasets 6 and 7: botm, then the stress periods
load_botm(file, d1, laycbd, nbotm, delr, delc, top, botm) ==
    IF botm.err # "" THEN LoadEnd(botm.err, NoDis, laycbd, 0)
    ELSE load_create(d1, laycbd, nbotm, delr, delc, top, botm.a,
             load_periods(file, botm.pos, d1.nper,
                 [err |-> "", perlen |-> <<>>, nstp |-> <<>>, tsmult |-> <<>>,
                  steady |-> <<>>]))

\* load, dataset 5: top
load_top(file, d1, laycbd, delr, delc, top) ==
    IF top.err # "" THEN LoadEnd(top.err, NoDis, laycbd, 0)
    ELSE load_botm(file, d1, laycbd, load_nbotm(d1.nlay, laycbd), delr, delc, top.a,
             ArrayLoad3(file, top.pos, load_nbotm(d1.nlay, laycbd), d1.nrow, d1.ncol))

\* load, dataset 4: delc
load_delc(file, d1, laycbd, delr, delc) ==
    IF delc.err # "" THEN LoadEnd(delc.err, NoDis, laycbd, 0)
    ELSE load_top(file, d1, laycbd, delr, delc.a,
             ArrayLoad2(file, delc.pos, d1.nrow, d1.ncol))

\* load, dataset 3: delr
load_delr(file, d1, laycbd, delr) ==
    IF delr.err # "" THEN LoadEnd(delr.err, NoDis, laycbd, 0)
    ELSE load_delc(file, d1, laycbd, delr.a, ArrayLoad1(file, delr.pos, d1.nrow))

\* load, dataset 2: laycbd
load_arrays(file, d1, lc) ==
    IF lc.err # "" THEN LoadEnd(lc.err, NoDis, lc.laycbd, 0)
    ELSE load_delr(file, d1, lc.laycbd, ArrayLoad1(file, lc.pos, d1.ncol))

\* load, dataset 1: the dimensions
load_dims(file, p1, d1) ==
    IF d1.err # "" THEN LoadEnd(d1.err, NoDis, <<>>, 0)
    ELSE load_arrays(file, d1, load_laycbd(file, p1 + 1, <<>>, d1.nlay))

\* load, dataset 0: the header
load_header(file, p1) ==
    IF p1 = 0 THEN LoadEnd("IndexError", NoDis, <<>>, 0)
    ELSE load_dims(file, p1,
             [start_datetime |-> header_start_datetime(file, p1)] @@ load_dataset1(file[p1]))

\* ModflowDis.load on the lines of a file
load(file) == load_header(file, SkipHeader(file, 1))

----------------------------------------------------------------------------
(* Specification SpecIO: write_file and load of the discretization file *)

\* the stress periods tried: <<perlen, nstp, tsmult, steady>>
PeriodKinds == {<<1, 1, 1, TRUE>>, <<30, 12, 1, FALSE>>, <<365, 4, 2, FALSE>>}

\* constructor arguments that vary the grid and its arrays
GridArgs ==
    UNION {UNION {UNION {
        {[DefaultArgs EXCEPT
              !.nlay = g[1], !.nrow = g[2], !.ncol = g[3],
              !.laycbd = Array(cbd), !.top = Scalar(t), !.botm = b,
              !.delr = w, !.delc = Scalar(1)] :
            b \in BotmArgs(g[1] + Sum(ForceLastZero(cbd, g[1])), g[2], g[3], t),
            w \in WidthArgs(g[3])} :
        t \in 1 .. MaxElev} : cbd \in [Range(g[1]) -> 0 .. 1]} : g \in Grids}

\* constructor arguments that vary the units and the stress periods
TimeArgs ==
    UNION {
        {[DefaultArgs EXCEPT
              !.nper = n, !.itmuni = iu, !.lenuni = lu,
              !.perlen = Array([t \in Range(n) |-> k[t][1]]),
              !.nstp = Array([t \in Range(n) |-> k[t][2]]),
              !.tsmult = Array([t \in Range(n) |-> k[t][3]]),
              !.steady = Array([t \in Range(n) |-> k[t][4]])] :
            iu \in 0 .. 5, lu \in 0 .. 3, k \in [Range(n) -> PeriodKinds]} :
        n \in 1 .. MaxPer}

\* constructor arguments that vary start_datetime: the default, another date,
\* and dates with ':' and with upper-case letters
DateArgs ==
    {[DefaultArgs EXCEPT !.start_datetime = sd] :
        sd \in {<<"1", "/", "1", "/", "1", "9", "7", "0">>,
                <<"1", "/", "1", "/", "2", "0", "0", "0">>,
                <<"1", "/", "1", "/", "2", "0", "0", "0", " ", "1", "2", ":", "3", "0">>,
                <<"1", "-", "J", "A", "N", "-", "2", "0", "0", "0">>}}

\* a file written by other means than write_file: LAYCBD as given, not forced
\* to end with 0, and a botm surface for every layer and every flagged bed
ForeignFile(g, cbd) ==
    write_file([ModflowDis([DefaultArgs EXCEPT !.nlay = g[1], !.nrow = g[2], !.ncol = g[3]])
                EXCEPT !.laycbd = cbd,
                       !.botm = StepBotm(g[1] + Sum(cbd), g[2], g[3], 1)])

InitIO ==
    /\ \/ /\ \E a \in GridArgs \cup TimeArgs \cup DateArgs : dis = ModflowDis(a)
          /\ pc = "init"
          /\ fs = NoFs
       \/ /\ dis = NoDis
          /\ pc = "file"
          /\ \E g \in Grids : \E cbd \in [Range(g[1]) -> 0 .. 1] :
             \E n \in 0 .. Len(ForeignFile(g, cbd)) :
                 fs = [NoFs EXCEPT !.dis = SubSeq(ForeignFile(g, cbd), 1, n)]
    /\ ibound = NoIbound
    /\ ret = NoRet
    /\ err = ""
    /\ handles = NoHandles
    /\ wel = NoWel

\* dis.write_file().  A write can fail (IOError) after any number of lines:
\* the lines written so far stay on disk and f_dis.close() is not reached.
WriteFile ==
    /\ pc = "init"
    /\ \E n \in 0 .. Len(write_file(dis)) :
         /\ fs' = [fs EXCEPT !.dis = SubSeq(write_file(dis), 1, n)]
         /\ err' = IF n = Len(write_file(dis)) THEN "" ELSE "IOError"
         /\ handles' = [h \in {"f_dis"} |->
                           IF n = Len(write_file(dis)) THEN "closed" ELSE "open"]
    /\ ret' = [op |-> "write_file"]
    /\ pc' = "write_file"
    /\ UNCHANGED <<dis, ibound, wel>>

\* ModflowDis.load(filename, model): the file is opened by load, and no path
\* of load closes it.  ret.dis is the object returned.
Load ==
    /\ pc \in {"write_file", "file"}
    /\ LET r == load(fs.dis)
       IN  /\ ret' = [op |-> "load", dis |-> r.dis, laycbd |-> r.laycbd, nbotm |-> r.nbotm]
           /\ err' = r.err
           /\ pc' = IF r.err = "hang" THEN "load_laycbd" ELSE "load"
    /\ handles' = [h \in {"f"} |-> "open"]
    /\ UNCHANGED <<dis, ibound, fs, wel>>

\* load inside its LAYCBD loop at the end of the file: one more readline()
LoadLaycbdAtEof ==
    /\ pc = "load_laycbd"
    /\ UNCHANGED vars

NextIO == WriteFile \/ Load \/ LoadLaycbdAtEof

SpecIO == InitIO /\ [][NextIO]_vars

\* C18: ModflowDis.load ends on every finite file: a load that was called has
\* returned or raised (pc "load"), and it is never left reading at the end
\* of the file inside its LAYCBD loop.
C18_LoadTerminates ==
    (pc \in {"load", "load_laycbd"}) => (pc = "load" /\ err # "hang")

\* the attributes the file carries
SameGeometry(a, b) ==
    /\ a.nlay = b.nlay /\ a.nrow = b.nrow /\ a.ncol = b.ncol /\ a.nper = b.nper
    /\ a.itmuni = b.itmuni /\ a.lenuni = b.lenuni
    /\ a.laycbd = b.laycbd
    /\ a.delr = b.delr /\ a.delc = b.delc /\ a.top = b.top /\ a.botm = b.botm
    /\ a.perlen = b.perlen /\ a.nstp = b.nstp /\ a.tsmult = b.tsmult
    /\ a.steady = b.steady

\* C5: load of the file that g.write_file() wrote returns a geometry with the
\* same dimensions, units, laycbd, spacings, elevations and stress periods as g.
C5_RoundTrip ==
    (pc = "load" /\ dis # NoDis /\ fs.dis = write_file(dis)) =>
        /\ err = ""
        /\ SameGeometry(ret.dis, dis)

\* C5 witness: a geometry with two layers, a confining bed, a bottom cell moved
\* off the stepped surface and widths that differ has been written and loaded.
C5_Witness ==
    /\ pc = "load" /\ dis # NoDis /\ fs.dis = write_file(dis)
    /\ err = ""
    /\ dis.nlay = 2 /\ dis.laycbd[0] = 1 /\ dis.ncol = 2
    /\ dis.botm[2][0][0] # dis.botm[2][0][1]
    /\ dis.delr[0] # dis.delr[1]
    /\ ret.dis.botm = dis.botm

\* C16: load of the file that g.write_file() wrote returns a geometry with the
\* start_datetime of g.
C16_StartDatetime ==
    (pc = "load" /\ dis # NoDis /\ fs.dis = write_file(dis) /\ err = "") =>
        ret.dis.start_datetime = dis.start_datetime

\* the number of botm surfaces an object with this laycbd expects
ExpectedBotm(nlay, laycbd) == nlay + Sum(ForceLastZero(laycbd, nlay))

\* C7: a constructed or loaded geometry has laycbd[nlay-1] = 0 and
\* nlay + sum(laycbd) botm surfaces, and load reads from the file as many botm
\* surfaces as the object it constructs expects.
C7_BotmSurfaces ==
    /\ (pc = "init" /\ dis # NoDis) =>
           /\ dis.laycbd[dis.nlay - 1] = 0
           /\ Size(dis.botm) = dis.nlay + Sum(dis.laycbd)
    /\ (pc = "load" /\ ret.nbotm > 0) =>
           ret.nbotm = ExpectedBotm(Size(ret.laycbd), ret.laycbd)
    /\ (pc = "load" /\ err = "") =>
           /\ ret.dis.laycbd[ret.dis.nlay - 1] = 0
           /\ Size(ret.dis.botm) = ret.dis.nlay + Sum(ret.dis.laycbd)

\* C9: every file handle a call opened is closed when the call has ended.
C9_HandlesClosed ==
    pc \in {"write_file", "load", "read_from_cnf", "wel_load"} =>
        \A h \in DOMAIN handles : handles[h] = "closed"

----------------------------------------------------------------------------
(* The well file, as lines of tokens.  Beside numbers a line holds words:   *)
(* '#', PARAMETER, SPECIFY, AUX and option names.  int() and float() raise  *)
(* ValueError on a word.                                                    *)

MaxWelPer == 3

Word(w) == [bad |-> TRUE, v |-> 0, w |-> w]

\* str.lower() of a token
Lower(tok) ==
    CASE tok = Word("PARAMETER") -> Word("parameter")
      [] tok = Word("SPECIFY") -> Word("specify")
      [] tok = Word("AUX") -> Word("aux")
      [] OTHER -> tok

\* w in line.lower()
Contains(line, w) == \E x \in 1 .. Len(line) : Lower(line[x]) = Word(w)

\* int(t[x]) or float(t[x]), x counted from 0: the exception raised, "" if none
TokErr(t, x) ==
    IF x + 1 > Len(t) THEN "IndexError"
    ELSE IF t[x + 1].bad THEN "ValueError"
    ELSE ""

----------------------------------------------------------------------------
(* ModflowWel.load.  Python lists are objects: heap holds their contents,  *)
(* current and the entries of stress_period_data (spd) are references.     *)

\* the list itself stored instead of a copy of it
np_array_shared(heap, ref) == [heap |-> heap, ref |-> ref]

\* np.array(current): a new array holding a copy of the list's records
np_array(heap, ref) == [heap |-> Append(heap, heap[ref]), ref |-> Len(heap) + 1]

\* load ended by an exception before its loop
WelFail(e) == [err |-> e, wel |-> NoWel]

\* load ended by an exception inside its loop
WelRaise(e, w) == [err |-> e, wel |-> w]

\* dataset 0: while True: line = f.readline(); if line[0] != '#': break
RECURSIVE WelSkipHeader(_, _)
WelSkipHeader(file, pos) ==
    IF pos > Len(file) THEN 0
    ELSE IF file[pos] # <<>> /\ file[pos][1] = Word("#") THEN WelSkipHeader(file, pos + 1)
    ELSE pos

\* naux: for toption in t[3:-1]: ... elif 'aux' in toption.lower(): naux += 1
wel_naux(t) ==
    IF Len(t) > 2
    THEN Cardinality({x \in 4 .. Len(t) - 1 : Lower(t[x]) = Word("aux")})
    ELSE 0

\* stress_period_data = {}; current = []: the state load enters its loop with
wel_loop_entry(nper, pos, npwel, naux, specify) ==
    [err |-> "",
     wel |-> [iper |-> 0, nper |-> nper, pos |-> pos, npwel |-> npwel,
              nitems |-> 4 + naux, specify |-> specify,
              heap |-> <<<<>>>>, current |-> 1, spd |-> <<>>, itmp |-> <<>>]]

\* nitems = 4 + naux; if npwel > 0: well_parms = mfparbc.load(f, npwel).
\* npwel is bound only when a PARAMETER line was read.  mfparbc is outside
\* these sources: a file with NPWEL > 0 ends the modelled call there.
wel_read_parameters(nper, pos, hasparm, npwel, naux, specify) ==
    IF ~hasparm THEN WelFail("UnboundLocalError")
    ELSE IF npwel > 0 THEN WelFail("mfparbc")
    ELSE wel_loop_entry(nper, pos, npwel, naux, specify)

\* line = f.readline() and the test for the specify keyword
wel_specify(file, nper, pos, hasparm, npwel, naux) ==
    IF Contains(ReadLine(file, pos), "specify")
    THEN IF TokErr(ReadLine(file, pos + 1), 1) # ""
         THEN WelFail(TokErr(ReadLine(file, pos + 1), 1))
         ELSE wel_read_parameters(nper, pos + 2, hasparm, npwel, naux, TRUE)
    ELSE wel_read_parameters(nper, pos + 1, hasparm, npwel, naux, FALSE)

\* dataset 2a: mxactw = int(t[0]), then the options
wel_dataset2a(file, nper, t, pos, hasparm, npwel) ==
    IF TokErr(t, 0) # "" THEN WelFail(TokErr(t, 0))
    ELSE wel_specify(file, nper, pos, hasparm, npwel, wel_naux(t))

\* if "parameter" in line.lower(): npwel = np.int(t[1]); ... line = f.readline()
wel_parameter(file, nper, p1) ==
    IF Contains(file[p1], "parameter")
    THEN IF TokErr(file[p1], 1) # "" THEN WelFail(TokErr(file[p1], 1))
         ELSE IF file[p1][2].v > 0 /\ TokErr(file[p1], 2) # ""
         THEN WelFail(TokErr(file[p1], 2))
         ELSE wel_dataset2a(file, nper, ReadLine(file, p1 + 1), p1 + 2, TRUE, file[p1][2].v)
    ELSE wel_dataset2a(file, nper, file[p1], p1 + 1, FALSE, 0)

\* load up to its loop over the stress periods
wel_open(file, nper) ==
    IF WelSkipHeader(file, 1) = 0 THEN WelFail("IndexError")
    ELSE wel_parameter(file, nper, WelSkipHeader(file, 1))

\* for jdx in xrange(nitems): int(t[jdx]) - 1 or float(t[jdx]); the first
\* exception raised, "" if none
record_err(t, nitems) ==
    LET failing == {x \in 0 .. nitems - 1 : TokErr(t, x) # ""}
    IN  IF failing = {} THEN ""
        ELSE TokErr(t, CHOOSE x \in failing : \A y \in failing : x <= y)

\* bnd: layer, row, column converted to zero-based, then flux and aux values
record_bnd(t, nitems) == [x \in 1 .. nitems |-> IF x <= 3 THEN t[x].v - 1 ELSE t[x].v]

\* for ibnd in xrange(itmp): read a line, build bnd, current.append(bnd)
RECURSIVE read_records(_, _, _, _, _)
read_records(file, pos, n, nitems, acc) ==
    IF n = 0 THEN [err |-> "", recs |-> acc, pos |-> pos]
    ELSE IF record_err(ReadLine(file, pos), nitems) # ""
    THEN [err |-> record_err(ReadLine(file, pos), nitems), recs |-> acc, pos |-> pos + 1]
    ELSE read_records(file, pos + 1, n - 1, nitems,
             Append(acc, record_bnd(ReadLine(file, pos), nitems)))

\* stress_period_data[iper] = np.array(current)
wel_store(w, itmp, pos) ==
    [err |-> "",
     wel |-> [w EXCEPT !.heap = np_array(w.heap, w.current).heap,
                       !.spd = Append(@, np_array(w.heap, w.current).ref),
                       !.itmp = Append(@, itmp),
                       !.iper = @ + 1,
                       !.pos = pos]]

\* for iparm in xrange(itmpnp): pname = t[0]; current_dict = well_parms[pname].
\* The loop is entered with npwel = 0 only, where well_parms is unbound.
wel_period_parameters(file, w, itmp, itmpnp, pos) ==
    IF itmpnp > 0
    THEN IF ReadLine(file, pos) = <<>> THEN WelRaise("IndexError", [w EXCEPT !.pos = pos + 1])
         ELSE WelRaise("UnboundLocalError", [w EXCEPT !.pos = pos + 1])
    ELSE wel_store(w, itmp, pos)

\* current.append(bnd) for the records read, on the list current refers to
wel_appended(file, w, itmp, itmpnp, r) ==
    IF r.err # ""
    THEN WelRaise(r.err, [w EXCEPT !.heap[w.current] = @ \o r.recs, !.pos = r.pos])
    ELSE wel_period_parameters(file, [w EXCEPT !.heap[w.current] = @ \o r.recs],
             itmp, itmpnp, r.pos)

\* if itmp == 0: current = []; elif itmp > 0: read itmp records
wel_records(file, w, itmp, itmpnp, pos) ==
    IF itmp = 0
    THEN wel_period_parameters(file,
             [w EXCEPT !.heap = Append(@, <<>>), !.current = Len(w.heap) + 1],
             itmp, itmpnp, pos)
    ELSE IF itmp > 0
    THEN wel_appended(file, w, itmp, itmpnp, read_records(file, pos, itmp, w.nitems, <<>>))
    ELSE wel_period_parameters(file, w, itmp, itmpnp, pos)

\* itmp = int(t[0]); itmpnp = 0; try: itmpnp = int(t[1]); except: pass
wel_itmp(file, w, t, pos) ==
    IF TokErr(t, 0) # "" THEN WelRaise(TokErr(t, 0), [w EXCEPT !.pos = pos])
    ELSE wel_records(file, w, t[1].v, IF TokErr(t, 1) = "" THEN t[2].v ELSE 0, pos)

\* one pass of: for iper in xrange(nper)
wel_period(file, w) ==
    IF Contains(ReadLine(file, w.pos), "specify")
    THEN IF TokErr(ReadLine(file, w.pos + 1), 1) # ""
         THEN WelRaise(TokErr(ReadLine(file, w.pos + 1), 1),
                       [w EXCEPT !.specify = TRUE, !.pos = w.pos + 2])
         ELSE wel_itmp(file, [w EXCEPT !.specify = TRUE], ReadLine(file, w.pos + 1),
                       w.pos + 2)
    ELSE wel_itmp(file, w, ReadLine(file, w.pos), w.pos + 1)

----------------------------------------------------------------------------
(* Specification SpecWel: ModflowWel.load, stress period by stress period *)

\* the lines before the first stress period: the layout of the well file
\* with and without its PARAMETER and SPECIFY lines, and the same with one
\* more (blank) line after the MXACTW line
WelHeads ==
    LET ParameterLine == <<Word("PARAMETER"), Num(0), Num(0)>>
        MxactwLine    == <<Num(2), Num(0)>>
        MxactwAuxLine == <<Num(2), Num(0), Word("AUX"), Word("IFACE")>>
        MxactwOptLine == <<Num(2), Num(0), Word("NOPRINT"), Word("AUX"), Word("IFACE")>>
        SpecifyLine   == <<Word("SPECIFY"), Num(1), Num(2)>>
        CommentLine   == <<Word("#"), Word("wells")>>
    IN  {<<ParameterLine, MxactwLine>>,
         <<ParameterLine, MxactwOptLine, <<>>>>,
         <<ParameterLine, MxactwLine, <<>>>>,
         <<MxactwLine, <<>>>>,
         <<CommentLine, ParameterLine, MxactwAuxLine, <<>>>>,
         <<ParameterLine, MxactwLine, SpecifyLine>>,
         <<ParameterLine, MxactwLine, <<>>, SpecifyLine>>}

\* one stress period: its ITMP [ITMPNP] line and its LAYER ROW COLUMN FLUX
\* records
WelBlocks ==
    LET WellRecord1 == <<Num(1), Num(1), Num(1), Num(5)>>
        WellRecord2 == <<Num(2), Num(1), Num(2), Num(7)>>
    IN  {<<<<Num(-1), Num(0)>>>>,
         <<<<Num(0), Num(0)>>>>,
         <<<<Num(1), Num(0)>>, WellRecord1>>,
         <<<<Num(1)>>, WellRecord2>>,
         <<<<Num(2), Num(0)>>, WellRecord1, WellRecord2>>,
         <<<<Num(1), Num(0)>>, <<Num(1), Bad, Num(1), Num(5)>>>>}

\* the lines of n stress periods
RECURSIVE WelBodies(_)
WelBodies(n) ==
    IF n = 0 THEN {<<>>}
    ELSE {b \o k : b \in WelBodies(n - 1), k \in WelBlocks}

InitWel ==
    /\ pc = "file"
    /\ \E h \in WelHeads : \E n \in 1 .. MaxWelPer : \E b \in WelBodies(n) :
         fs = [NoFs EXCEPT !.wel = h \o b]
    /\ dis = NoDis
    /\ ibound = NoIbound
    /\ ret = NoRet
    /\ err = ""
    /\ handles = NoHandles
    /\ wel = NoWel

\* ModflowWel.load(filename, model, nper) up to its loop: the file is opened
WelOpen ==
    /\ pc = "file"
    /\ \E nper \in 1 .. MaxWelPer :
         /\ wel' = wel_open(fs.wel, nper).wel
         /\ err' = wel_open(fs.wel, nper).err
         /\ pc' = IF wel_open(fs.wel, nper).err = "" THEN "wel_loop" ELSE "wel_load"
    /\ handles' = [h \in {"f"} |-> "open"]
    /\ UNCHANGED <<dis, ibound, ret, fs>>

\* one stress period of the loop
WelPeriod ==
    /\ pc = "wel_loop"
    /\ wel.iper < wel.nper
    /\ wel' = wel_period(fs.wel, wel).wel
    /\ err' = wel_period(fs.wel, wel).err
    /\ pc' = IF wel_period(fs.wel, wel).err = "" THEN "wel_loop" ELSE "wel_load"
    /\ UNCHANGED <<dis, ibound, ret, fs, handles>>

\* after the loop: ModflowWel(model, iwelcb,
\* layer_row_column_data=layer_row_column_data, ...) names a variable load
\* never assigns; no path of load closes the file
WelCreate ==
    /\ pc = "wel_loop"
    /\ wel.iper = wel.nper
    /\ err' = "NameError"
    /\ pc' = "wel_load"
    /\ UNCHANGED <<dis, ibound, ret, fs, handles, wel>>

NextWel == WelOpen \/ WelPeriod \/ WelCreate

SpecWel == InitWel /\ [][NextWel]_vars

\* the records stored for stress period p (counted from 1)
Stored(w, p) == w.heap[w.spd[p]]

\* C3: a stress period read with ITMP > 0 has exactly ITMP records stored.
C3_ReplacesList ==
    wel # NoWel =>
        \A p \in 1 .. Len(wel.spd) :
            wel.itmp[p] > 0 => Len(Stored(wel, p)) = wel.itmp[p]

\* C4: a period read with ITMP < 0 stores the list of the period before it, a
\* period read with ITMP = 0 stores the empty list, and no step of load
\* changes the list stored for an earlier period.
C4_CarryForward ==
    [][(wel # NoWel /\ wel' # NoWel) =>
         /\ \A p \in 1 .. Len(wel.spd) :
                /\ p <= Len(wel'.spd)
                /\ Stored(wel', p) = Stored(wel, p)
         /\ Len(wel'.spd) > Len(wel.spd) =>
                /\ wel'.itmp[Len(wel'.spd)] < 0 =>
                       Stored(wel', Len(wel'.spd)) =
                           IF Len(wel.spd) = 0 THEN <<>> ELSE Stored(wel, Len(wel.spd))
                /\ wel'.itmp[Len(wel'.spd)] = 0 =>
                       Stored(wel', Len(wel'.spd)) = <<>>]_vars

\* C4 witness: three periods read with ITMP 2, -1 and 0: two records stored,
\* the same two carried forward, then none.
C4_Witness ==
    /\ wel # NoWel
    /\ wel.itmp = <<2, -1, 0>>
    /\ Len(wel.spd) = 3
    /\ Len(Stored(wel, 1)) = 2
    /\ Stored(wel, 2) = Stored(wel, 1)
    /\ Stored(wel, 3) = <<>>

\* C13: once load has read the MXACTW line, the number of fields it reads for
\* a record is 4 plus the number of aux tokens among the options of that line
\* (the tokens after MXACTW and IWELCB), wherever they stand.
C13_RecordWidth ==
    LET first  == CHOOSE i \in 1 .. Len(fs.wel) :
                      /\ fs.wel[i] # <<>> /\ ~fs.wel[i][1].bad
                      /\ \A j \in 1 .. i - 1 : fs.wel[j] = <<>> \/ fs.wel[j][1].bad
        mxactw == fs.wel[first]
    IN  (pc \in {"wel_loop", "wel_load"} /\ wel # NoWel) =>
            wel.nitems =
                4 + Cardinality({x \in 3 .. Len(mxactw) : Lower(mxactw[x]) = Word("aux")})

\* C14: on a file in the layout of the well file (no line between the MXACTW
\* or SPECIFY line and the first ITMP line), load enters its loop with the
\* first ITMP line as the next line to read, and the ITMP of the first period
\* it stores is the number on that line.
C14_LayoutOrder ==
    LET first  == CHOOSE i \in 1 .. Len(fs.wel) :
                      /\ fs.wel[i] # <<>> /\ ~fs.wel[i][1].bad
                      /\ \A j \in 1 .. i - 1 : fs.wel[j] = <<>> \/ fs.wel[j][1].bad
        itmp1  == IF Contains(ReadLine(fs.wel, first + 1), "specify")
                  THEN first + 2 ELSE first + 1
    IN  (/\ pc \in {"wel_loop", "wel_load"} /\ wel # NoWel
         /\ \A i \in 1 .. Len(fs.wel) : fs.wel[i] # <<>>) =>
            /\ wel.iper = 0 /\ pc = "wel_loop" => wel.pos = itmp1
            /\ Len(wel.itmp) >= 1 => wel.itmp[1] = fs.wel[itmp1][1].v

----------------------------------------------------------------------------
(* ModflowWel.write_file.  A well package is a record of the attributes the *)
(* constructor sets; stress_period_data holds one list of records for every *)
(* stress period, 0-based.                                                  *)

\* mflist.write_transient: for every period its ITMP line and its records,
\* with layer, row and column written one-based
RECURSIVE write_transient(_, _)
write_transient(spd, n) ==
    IF n = 0 THEN <<>>
    ELSE write_transient(spd, n - 1)
         \o <<<<Num(Len(spd[n - 1])), Num(0)>>>>
         \o [x \in 1 .. Len(spd[n - 1]) |->
                [y \in 1 .. Len(spd[n - 1][x]) |->
                    Num(IF y <= 3 THEN spd[n - 1][x][y] + 1 ELSE spd[n - 1][x][y])]]

\* the lines write_file writes, in the order it writes them; nwt is the
\* outcome of: self.parent.version is 'mfnwt'
wel_write_file(w, nwt) ==
    <<<<Word("#"), Word("Well"), Word("file"), Word("for"), Word("MODFLOW,"),
        Word("generated"), Word("by"), Word("Flopy.")>>>>
    \o (IF w.specify /\ nwt
        THEN <<<<Word("SPECIFY"), Num(w.phiramp), Num(w.phiramp_unit)>>>>
        ELSE <<>>)
    \o <<<<Num(w.mxact), Num(w.ipakcb)>> \o [x \in 1 .. Len(w.options) |-> Word(w.options[x])]>>
    \o write_transient(w.stress_period_data, Size(w.stress_period_data))

\* Specification SpecWelWrite: a well package built by the constructor, then
\* write_file
InitWelWrite ==
    /\ pc = "wel_init"
    /\ \E ipakcb \in {0, 53}, specify \in BOOLEAN, version \in {"mf2005", "mfnwt"},
          options \in {<<>>, <<"NOPRINT">>, <<"AUX", "IFACE">>}, nper \in 1 .. MaxWelPer :
       \E spd \in [Range(nper) -> {<<>>, <<<<0, 0, 0, 5>>>>, <<<<0, 0, 0, 5>>, <<1, 0, 1, 7>>>>}] :
           wel = [ipakcb |-> ipakcb, specify |-> specify, phiramp |-> 1,
                  phiramp_unit |-> 2, options |-> options, version |-> version,
                  stress_period_data |-> spd,
                  mxact |-> IF \E k \in Range(nper) : Len(spd[k]) = 2 THEN 2
                            ELSE IF \E k \in Range(nper) : Len(spd[k]) = 1 THEN 1 ELSE 0]
    /\ dis = NoDis
    /\ ibound = NoIbound
    /\ ret = NoRet
    /\ err = ""
    /\ handles = NoHandles
    /\ fs = NoFs

\* wel.write_file().  The identity test of the version string against the
\* literal 'mfnwt' can only be true of an equal string, and need not be.
WelWriteFile ==
    /\ pc = "wel_init"
    /\ \E nwt \in {b \in BOOLEAN : b => wel.version = "mfnwt"} :
         fs' = [fs EXCEPT !.wel = wel_write_file(wel, nwt)]
    /\ handles' = [h \in {"f_wel"} |-> "closed"]
    /\ ret' = [op |-> "wel_write_file"]
    /\ pc' = "wel_write_file"
    /\ UNCHANGED <<dis, ibound, err, wel>>

NextWelWrite == WelWriteFile

SpecWelWrite == InitWelWrite /\ [][NextWelWrite]_vars

\* C15: the file written starts with the heading, its second line is the
\* MXACTW IPAKCB [options] line, a package of an NWT model with specify set
\* has its SPECIFY line third, and no SPECIFY line stands anywhere else.
C15_WriteOrder ==
    pc = "wel_write_file" =>
        /\ Len(fs.wel) >= 2
        /\ fs.wel[1][1] = Word("#")
        /\ SubSeq(fs.wel[2], 1, 2) = <<Num(wel.mxact), Num(wel.ipakcb)>>
        /\ Len(fs.wel[2]) = 2 + Len(wel.options)
        /\ (wel.specify /\ wel.version = "mfnwt") =>
               Len(fs.wel) >= 3 /\ fs.wel[3][1] = Word("SPECIFY")
        /\ \A i \in 1 .. Len(fs.wel) : fs.wel[i][1] = Word("SPECIFY") => i = 3

----------------------------------------------------------------------------
(* ModflowDis.__init__: itmuni and lenuni given as strings *)

\* ITMUNI = {"u":0,"s":1,"m":2,"h":3,"d":4,"y":5}
ITMUNI == [ch \in {"u", "s", "m", "h", "d", "y"} |->
              CASE ch = "u" -> 0 [] ch = "s" -> 1 [] ch = "m" -> 2
                [] ch = "h" -> 3 [] ch = "d" -> 4 [] ch = "y" -> 5]

\* LENUNI = {"u":0,"f":1,"m":2,"c":3}
LENUNI == [ch \in {"u", "f", "m", "c"} |->
              CASE ch = "u" -> 0 [] ch = "f" -> 1 [] ch = "m" -> 2 [] ch = "c" -> 3]

\* try: code = int(unit) except: code = TABLE[unit.lower()[0]]
unit_code(table, unit) ==
    IF ParseInt(unit).ok THEN [err |-> "", v |-> ParseInt(unit).v]
    ELSE IF unit = <<>> THEN [err |-> "IndexError", v |-> 0]
    ELSE IF LowerChar(unit[1]) \in DOMAIN table
    THEN [err |-> "", v |-> table[LowerChar(unit[1])]]
    ELSE [err |-> "KeyError", v |-> 0]

\* the strings tried for itmuni: unit names, other words, numerals, ''
TimeTexts ==
    {<<"s", "e", "c", "o", "n", "d", "s">>,
     <<"m", "i", "n", "u", "t", "e", "s">>,
     <<"h", "o", "u", "r", "s">>,
     <<"d", "a", "y", "s">>,
     <<"y", "e", "a", "r", "s">>,
     <<"u", "n", "d", "e", "f", "i", "n", "e", "d">>,
     <<"D", "A", "Y", "S">>,
     <<"m", "o", "n", "t", "h", "s">>,
     <<"w", "e", "e", "k", "s">>,
     <<"d", "e", "c", "a", "d", "e", "s">>,
     <<>>,
     <<"x">>,
     <<"4">>,
     <<"9">>}

\* the strings tried for lenuni
LengthTexts ==
    {<<"f", "e", "e", "t">>,
     <<"m", "e", "t", "e", "r", "s">>,
     <<"c", "e", "n", "t", "i", "m", "e", "t", "e", "r", "s">>,
     <<"u", "n", "d", "e", "f", "i", "n", "e", "d">>,
     <<"M", "e", "t", "e", "r", "s">>,
     <<"m", "i", "l", "e", "s">>,
     <<"f", "u", "r", "l", "o", "n", "g", "s">>,
     <<"i", "n", "c", "h", "e", "s">>,
     <<"k", "i", "l", "o", "m", "e", "t", "e", "r", "s">>,
     <<>>,
     <<"2">>,
     <<"5">>}

\* Specification SpecUnits: ModflowDis(model, itmuni=..., lenuni=...)
InitUnits ==
    /\ pc = "new"
    /\ dis = NoDis
    /\ ibound = NoIbound
    /\ ret = NoRet
    /\ err = ""
    /\ handles = NoHandles
    /\ fs = NoFs
    /\ wel = NoWel

\* the constructor called with two unit strings; itmuni is converted first
Construct ==
    /\ pc = "new"
    /\ \E itmuni \in TimeTexts, lenuni \in LengthTexts :
         /\ ret' = [op |-> "ModflowDis", itmuni |-> itmuni, lenuni |-> lenuni]
         /\ err' = IF unit_code(ITMUNI, itmuni).err # "" THEN unit_code(ITMUNI, itmuni).err
                   ELSE unit_code(LENUNI, lenuni).err
         /\ dis' = IF unit_code(ITMUNI, itmuni).err # "" \/ unit_code(LENUNI, lenuni).err # ""
                   THEN NoDis
                   ELSE ModflowDis([DefaultArgs EXCEPT
                            !.itmuni = unit_code(ITMUNI, itmuni).v,
                            !.lenuni = unit_code(LENUNI, lenuni).v])
    /\ pc' = "ModflowDis"
    /\ UNCHANGED <<ibound, handles, fs, wel>>

NextUnits == Construct

SpecUnits == InitUnits /\ [][NextUnits]_vars

\* C12: a unit string that is no numeral and none of the unit names (in any
\* case of letters) makes the constructor fail with a lookup error, and a
\* geometry built from unit strings has itmuni in 0..5 and lenuni in 0..3.
C12_UnitLookup ==
    LET TimeNames ==
            {<<"u", "n", "d", "e", "f", "i", "n", "e", "d">>,
             <<"s", "e", "c", "o", "n", "d", "s">>,
             <<"m", "i", "n", "u", "t", "e", "s">>,
             <<"h", "o", "u", "r", "s">>,
             <<"d", "a", "y", "s">>,
             <<"y", "e", "a", "r", "s">>}
        LengthNames ==
            {<<"u", "n", "d", "e", "f", "i", "n", "e", "d">>,
             <<"f", "e", "e", "t">>,
             <<"m", "e", "t", "e", "r", "s">>,
             <<"c", "e", "n", "t", "i", "m", "e", "t", "e", "r", "s">>}
    IN  pc = "ModflowDis" =>
            /\ (\/ ~ParseInt(ret.itmuni).ok /\ LowerText(ret.itmuni) \notin TimeNames
                \/ ~ParseInt(ret.lenuni).ok /\ LowerText(ret.lenuni) \notin LengthNames)
                   => err \in {"KeyError", "IndexError"}
            /\ err = "" => dis.itmuni \in 0 .. 5 /\ dis.lenuni \in 0 .. 3

====
